---- MODULE Spec2Model ----
(***************************************************************************)
(* Skin Weights Export/Import (Blender add-on): a model of                 *)
(* src/Skin_Weights_Addon/skin_weights_operator.py.                        *)
(*                                                                         *)
(* Numbers.  Coordinates are integers.  A weight is an integer number of   *)
(* tenths (3 is 0.3, 7 is 0.7).  An averaged UV is the exact fraction      *)
(* <<x/d, y/d>>, kept in lowest terms, so that two averages are equal      *)
(* exactly when the fractions are; float rounding is not modelled.         *)
(* Indices.  Vertex indices and record indices are 0-based as in the code; *)
(* the TLA+ sequences holding them are 1-based, so vertex i is             *)
(* vertices[i + 1].                                                        *)
(***************************************************************************)
EXTENDS Integers, Sequences, FiniteSets, TLC

\* Bounds of the model.
MaxVerts == 2
MaxRecs == 2
MaxLoops == 2

VARIABLES
    obj_type,       \* bpy.context.object: "NONE", "MESH" or another type
    vertices,       \* obj.data.vertices: the sequence of vert.co
    uv_layer,       \* obj.data.uv_layers.active and obj.data.loops
    vertex_groups,  \* obj.vertex_groups: the sequence of group names
    weights,        \* weights[i + 1]: the groups vertex i is in -> its weight
    file,           \* what is stored at the file path
    kd_tie,         \* how mathutils.kdtree.KDTree.find settles equal distances
    before,         \* vertex_groups, weights and file when the last call began
    calls,          \* the vertex-group calls the last import made, in order
    last            \* the last call: which one, its arguments and how it ended

vars == <<obj_type, vertices, uv_layer, vertex_groups, weights, file, kd_tie,
          before, calls, last>>

----------------------------------------------------------------------------
\* Values

FilePath == "skin.json"
GroupNames == {"a", "b"}
NoWeights == [g \in {} |-> 0]

RECURSIVE Gcd(_, _)
Gcd(a, b) == IF b = 0 THEN a ELSE Gcd(b, a % b)

\* The fraction <<x/d, y/d>> in lowest terms (d > 0, x >= 0, y >= 0).
Frac(x, y, d) ==
    LET k == Gcd(Gcd(x, y), d)
    IN  [x |-> x \div k, y |-> y \div k, d |-> d \div k]

ZeroUV == [x |-> 0, y |-> 0, d |-> 1]

RECURSIVE SumU(_)
SumU(uvs) == IF uvs = <<>> THEN 0 ELSE Head(uvs)[1] + SumU(Tail(uvs))

RECURSIVE SumV(_)
SumV(uvs) == IF uvs = <<>> THEN 0 ELSE Head(uvs)[2] + SumV(Tail(uvs))

RECURSIVE LoopUVs(_, _)
LoopUVs(loops, vert_index) ==
    IF loops = <<>> THEN <<>>
    ELSE IF Head(loops).vertex_index = vert_index
         THEN <<Head(loops).uv>> \o LoopUVs(Tail(loops), vert_index)
         ELSE LoopUVs(Tail(loops), vert_index)

\* get_uv_coords(obj, vert_index): [some |-> FALSE] is None.
get_uv_coords(vert_index) ==
    IF ~uv_layer.active THEN [some |-> FALSE, uv |-> ZeroUV]
    ELSE LET uvs == LoopUVs(uv_layer.loops, vert_index)
         IN  IF uvs = <<>> THEN [some |-> FALSE, uv |-> ZeroUV]
             ELSE [some |-> TRUE, uv |-> Frac(SumU(uvs), SumV(uvs), Len(uvs))]

----------------------------------------------------------------------------
\* export_skin_weights

\* Mutant of export_weights: the filter is weight >= 0.
RECURSIVE export_weights_nonnegative(_, _, _)
export_weights_nonnegative(groups, wts, vi) ==
    IF groups = <<>> THEN <<>>
    ELSE LET g == Head(groups)
             rest == export_weights_nonnegative(Tail(groups), wts, vi)
         IN  IF g \in DOMAIN wts[vi + 1] /\ wts[vi + 1][g] >= 0
             THEN <<[name |-> g, ok |-> TRUE, w |-> wts[vi + 1][g]]>> \o rest
             ELSE rest

\* The inner loop over obj.vertex_groups for vertex index vi: the entries of
\* v_data["weights"], in insertion order.  group.weight raises RuntimeError for
\* a vertex that is not in the group, which the code passes over.
RECURSIVE export_weights(_, _, _)
export_weights(groups, wts, vi) ==
    IF groups = <<>> THEN <<>>
    ELSE LET g == Head(groups)
             rest == export_weights(Tail(groups), wts, vi)
         IN  IF g \in DOMAIN wts[vi + 1] /\ wts[vi + 1][g] > 0
             THEN <<[name |-> g, ok |-> TRUE, w |-> wts[vi + 1][g]]>> \o rest
             ELSE rest

\* Mutant of export_record: "co" is the position of the first vertex.
export_record_first_co(groups, wts, vi) ==
    LET u == get_uv_coords(vi)
    IN  [co_ok |-> TRUE, co |-> vertices[1],
         uv_kind |-> "ok", uv |-> IF u.some THEN u.uv ELSE ZeroUV,
         weights |-> export_weights(groups, wts, vi)]

\* v_data of vertex index vi.
export_record(groups, wts, vi) ==
    LET u == get_uv_coords(vi)
    IN  [co_ok |-> TRUE, co |-> vertices[vi + 1],
         uv_kind |-> "ok", uv |-> IF u.some THEN u.uv ELSE ZeroUV,
         weights |-> export_weights(groups, wts, vi)]

\* The document the loop writes for a mesh with these groups and weights.
export_document(groups, wts) ==
    [kind |-> "object", has_vertices |-> TRUE,
     vertices |-> [i \in 1..Len(vertices) |-> export_record(groups, wts, i - 1)]]

\* Mutant of export_skin_weights: the file is opened before the vertices are
\* counted.
export_skin_weights_open_first(filepath, writable) ==
    IF filepath = "" THEN [cond |-> "NoFilePath", raised |-> FALSE, file |-> file]
    ELSE IF obj_type # "MESH"
    THEN [cond |-> IF obj_type = "NONE" THEN "NoSelection" ELSE "WrongObjectType",
          raised |-> FALSE, file |-> file]
    ELSE IF ~writable
    THEN [cond |-> "IOFailure", raised |-> TRUE, file |-> file]
    ELSE IF Len(vertices) = 0
    THEN [cond |-> "EmptyMesh", raised |-> FALSE,
          file |-> [kind |-> "object", has_vertices |-> TRUE,
                    vertices |-> <<>>]]
    ELSE [cond |-> "Success", raised |-> FALSE,
          file |-> export_document(vertex_groups, weights)]

\* export_skin_weights(filepath); writable: whether open(filepath, 'w')
\* succeeds.  The result: how the call ended and the file afterwards.
export_skin_weights(filepath, writable) ==
    IF filepath = "" THEN [cond |-> "NoFilePath", raised |-> FALSE, file |-> file]
    ELSE IF obj_type # "MESH"
    THEN [cond |-> IF obj_type = "NONE" THEN "NoSelection" ELSE "WrongObjectType",
          raised |-> FALSE, file |-> file]
    ELSE IF Len(vertices) = 0
    THEN [cond |-> "EmptyMesh", raised |-> FALSE, file |-> file]
    ELSE IF ~writable
    THEN [cond |-> "IOFailure", raised |-> TRUE, file |-> file]
    ELSE [cond |-> "Success", raised |-> FALSE,
          file |-> export_document(vertex_groups, weights)]

----------------------------------------------------------------------------
\* find_closest_uv_match

\* sum((a - b) ** 2 for a, b in zip(target_uv, source_uv)) as the fraction n/d.
uv_dist(t, s) ==
    [inf |-> FALSE,
     n |-> (t.x * s.d - s.x * t.d) * (t.x * s.d - s.x * t.d)
           + (t.y * s.d - s.y * t.d) * (t.y * s.d - s.y * t.d),
     d |-> (t.d * s.d) * (t.d * s.d)]

\* Mutant of dist_less: dist <= min_dist.
dist_less_or_equal(dist, min_dist) ==
    min_dist.inf \/ dist.n * min_dist.d <= min_dist.n * dist.d

\* dist < min_dist; min_dist starts as float('inf').
dist_less(dist, min_dist) ==
    min_dist.inf \/ dist.n * min_dist.d < min_dist.n * dist.d

\* The loop over enumerate(source_data) from record index i on.  A record
\* whose "uv" is not a sequence of numbers raises TypeError out of the loop.
RECURSIVE uv_scan(_, _, _, _, _)
uv_scan(target_uv, source_data, i, min_dist, best_index) ==
    IF i >= Len(source_data) THEN [raised |-> FALSE, index |-> best_index]
    ELSE LET v == source_data[i + 1]
         IN  IF v.uv_kind = "bad" THEN [raised |-> TRUE, index |-> best_index]
             ELSE LET source_uv == IF v.uv_kind = "absent" THEN ZeroUV ELSE v.uv
                      dist == uv_dist(target_uv, source_uv)
                  IN  IF dist_less(dist, min_dist)
                      THEN uv_scan(target_uv, source_data, i + 1, dist, i)
                      ELSE uv_scan(target_uv, source_data, i + 1, min_dist, best_index)

\* find_closest_uv_match(obj, vert, source_data), vert.index = vi.
find_closest_uv_match(vi, source_data) ==
    IF source_data = <<>> THEN [raised |-> FALSE, index |-> -1]
    ELSE LET u == get_uv_coords(vi)
             target_uv == IF u.some THEN u.uv ELSE ZeroUV
         IN  uv_scan(target_uv, source_data, 0,
                     [inf |-> TRUE, n |-> 0, d |-> 1], -1)

----------------------------------------------------------------------------
\* KDTree (mathutils.kdtree), as import_skin_weights uses it

dist3(p, q) ==
    (p[1] - q[1]) * (p[1] - q[1]) + (p[2] - q[2]) * (p[2] - q[2])
    + (p[3] - q[3]) * (p[3] - q[3])

\* old_tree.find(co): the index of a nearest inserted point.  Which of several
\* equally near points is returned is the library's choice, the same one every
\* time for the same tree and query: kd_tie fixes it.
kdtree_find(source_data, co) ==
    LET nearest == {i \in 0..(Len(source_data) - 1) :
                      \A j \in 0..(Len(source_data) - 1) :
                         dist3(source_data[i + 1].co, co)
                            <= dist3(source_data[j + 1].co, co)}
    IN  IF kd_tie = "lowest"
        THEN CHOOSE i \in nearest : \A j \in nearest : i <= j
        ELSE CHOOSE i \in nearest : \A j \in nearest : i >= j

----------------------------------------------------------------------------
\* import_skin_weights

has_group(groups, name) == \E k \in 1..Len(groups) : groups[k] = name

\* Mutant of apply_weights: group.add(..., 'ADD').
RECURSIVE apply_weights_add(_, _, _)
apply_weights_add(st, vi, items) ==
    IF items = <<>> \/ st.raised THEN st
    ELSE LET it == Head(items)
             st1 == IF has_group(st.vertex_groups, it.name) THEN st
                    ELSE [st EXCEPT
                            !.vertex_groups = Append(@, it.name),
                            !.calls = Append(@, [op |-> "new", name |-> it.name,
                                                 index |-> -1, weight |-> 0])]
             old == IF it.name \in DOMAIN st1.weights[vi + 1]
                    THEN st1.weights[vi + 1][it.name] ELSE 0
             st2 == IF ~it.ok THEN [st1 EXCEPT !.raised = TRUE]
                    ELSE [st1 EXCEPT
                            !.weights[vi + 1] = (it.name :> (old + it.w)) @@ @,
                            !.calls = Append(@, [op |-> "add", name |-> it.name,
                                                 index |-> vi, weight |-> it.w])]
         IN  apply_weights_add(st2, vi, Tail(items))

\* Mutant of apply_weights: the weight set is the mean of the old and the new.
RECURSIVE apply_weights_blend(_, _, _)
apply_weights_blend(st, vi, items) ==
    IF items = <<>> \/ st.raised THEN st
    ELSE LET it == Head(items)
             st1 == IF has_group(st.vertex_groups, it.name) THEN st
                    ELSE [st EXCEPT
                            !.vertex_groups = Append(@, it.name),
                            !.calls = Append(@, [op |-> "new", name |-> it.name,
                                                 index |-> -1, weight |-> 0])]
             old == IF it.name \in DOMAIN st1.weights[vi + 1]
                    THEN st1.weights[vi + 1][it.name] ELSE it.w
             st2 == IF ~it.ok THEN [st1 EXCEPT !.raised = TRUE]
                    ELSE [st1 EXCEPT
                            !.weights[vi + 1] =
                                (it.name :> ((old + it.w) \div 2)) @@ @,
                            !.calls = Append(@, [op |-> "add", name |-> it.name,
                                                 index |-> vi, weight |-> it.w])]
         IN  apply_weights_blend(st2, vi, Tail(items))

\* Mutant of apply_weights: vertex_groups.new without looking the group up.
RECURSIVE apply_weights_always_new(_, _, _)
apply_weights_always_new(st, vi, items) ==
    IF items = <<>> \/ st.raised THEN st
    ELSE LET it == Head(items)
             st1 == [st EXCEPT
                       !.vertex_groups = Append(@, it.name),
                       !.calls = Append(@, [op |-> "new", name |-> it.name,
                                            index |-> -1, weight |-> 0])]
             st2 == IF ~it.ok THEN [st1 EXCEPT !.raised = TRUE]
                    ELSE [st1 EXCEPT
                            !.weights[vi + 1] = (it.name :> it.w) @@ @,
                            !.calls = Append(@, [op |-> "add", name |-> it.name,
                                                 index |-> vi, weight |-> it.w])]
         IN  apply_weights_always_new(st2, vi, Tail(items))

\* The loop over weights.items() for vertex index vi.  st is the mesh as the
\* import has changed it so far, with the calls made and whether an exception
\* has been raised.  A weight that is not a number makes group.add raise
\* TypeError, after the group was looked up or created.
RECURSIVE apply_weights(_, _, _)
apply_weights(st, vi, items) ==
    IF items = <<>> \/ st.raised THEN st
    ELSE LET it == Head(items)
             st1 == IF has_group(st.vertex_groups, it.name) THEN st
                    ELSE [st EXCEPT
                            !.vertex_groups = Append(@, it.name),
                            !.calls = Append(@, [op |-> "new", name |-> it.name,
                                                 index |-> -1, weight |-> 0])]
             st2 == IF ~it.ok THEN [st1 EXCEPT !.raised = TRUE]
                    ELSE [st1 EXCEPT
                            !.weights[vi + 1] = (it.name :> it.w) @@ @,
                            !.calls = Append(@, [op |-> "add", name |-> it.name,
                                                 index |-> vi, weight |-> it.w])]
         IN  apply_weights(st2, vi, Tail(items))

\* Mutant of import_loop: a mode that is not POSITION is taken as UV.
RECURSIVE import_loop_else_uv(_, _, _, _)
import_loop_else_uv(st, vi, vertices_data, mapping_mode) ==
    IF vi >= Len(vertices) \/ st.raised THEN st
    ELSE IF mapping_mode = "POSITION"
    THEN LET index == kdtree_find(vertices_data, vertices[vi + 1])
         IN  import_loop_else_uv(
                 apply_weights(st, vi, vertices_data[index + 1].weights),
                 vi + 1, vertices_data, mapping_mode)
    ELSE LET m == find_closest_uv_match(vi, vertices_data)
         IN  IF m.raised THEN [st EXCEPT !.raised = TRUE]
             ELSE IF m.index = -1
             THEN import_loop_else_uv(st, vi + 1, vertices_data, mapping_mode)
             ELSE import_loop_else_uv(
                      apply_weights(st, vi, vertices_data[m.index + 1].weights),
                      vi + 1, vertices_data, mapping_mode)

\* The loop over obj.data.vertices from vertex index vi on.
RECURSIVE import_loop(_, _, _, _)
import_loop(st, vi, vertices_data, mapping_mode) ==
    IF vi >= Len(vertices) \/ st.raised THEN st
    ELSE IF mapping_mode = "POSITION"
    THEN LET index == kdtree_find(vertices_data, vertices[vi + 1])
         IN  import_loop(apply_weights(st, vi, vertices_data[index + 1].weights),
                         vi + 1, vertices_data, mapping_mode)
    ELSE IF mapping_mode = "UV"
    THEN LET m == find_closest_uv_match(vi, vertices_data)
         IN  IF m.raised THEN [st EXCEPT !.raised = TRUE]
             ELSE IF m.index = -1
             THEN import_loop(st, vi + 1, vertices_data, mapping_mode)
             ELSE import_loop(
                      apply_weights(st, vi, vertices_data[m.index + 1].weights),
                      vi + 1, vertices_data, mapping_mode)
    ELSE import_loop(st, vi + 1, vertices_data, mapping_mode)

\* import_skin_weights(filepath, mapping_mode): how the call ended and the
\* mesh afterwards.
import_skin_weights(filepath, mapping_mode) ==
    LET st0 == [vertex_groups |-> vertex_groups, weights |-> weights,
                calls |-> <<>>, raised |-> FALSE]
        stop(c, r) == [cond |-> c, raised |-> r, vertex_groups |-> vertex_groups,
                       weights |-> weights, calls |-> <<>>]
    IN  IF filepath = "" THEN stop("NoFilePath", FALSE)
        ELSE IF obj_type # "MESH"
        THEN stop(IF obj_type = "NONE" THEN "NoSelection" ELSE "WrongObjectType",
                  FALSE)
        ELSE IF file.kind = "missing" THEN stop("IOFailure", FALSE)
        ELSE IF file.kind = "garbage" THEN stop("ParseFailure", FALSE)
        ELSE IF file.kind # "object" THEN stop("Exception", TRUE)
        ELSE IF ~file.has_vertices \/ file.vertices = <<>>
        THEN stop("EmptyDataset", FALSE)
        ELSE IF mapping_mode = "POSITION"
                /\ \E i \in 1..Len(file.vertices) : ~file.vertices[i].co_ok
        THEN stop("Exception", TRUE)
        ELSE LET st == import_loop(st0, 0, file.vertices, mapping_mode)
             IN  [cond |-> IF st.raised THEN "Exception" ELSE "Success",
                  raised |-> st.raised, vertex_groups |-> st.vertex_groups,
                  weights |-> st.weights, calls |-> st.calls]

----------------------------------------------------------------------------
\* The operators, and import_skin_weights called from a script

snapshot == [vertex_groups |-> vertex_groups, weights |-> weights, file |-> file]

is_import(l) == l.op \in {"ImportOp", "ImportCall"}

\* ExportSkinWeights.execute
ExportOp(filepath, writable) ==
    /\ before' = snapshot
    /\ calls' = <<>>
    /\ IF obj_type # "MESH"
       THEN /\ file' = file
            /\ last' = [op |-> "ExportOp", filepath |-> filepath, mode |-> "NONE",
                        cond |-> IF obj_type = "NONE" THEN "NoSelection"
                                 ELSE "WrongObjectType",
                        level |-> "ERROR", ret |-> "CANCELLED", repeat |-> FALSE]
       ELSE IF filepath = ""
       THEN /\ file' = file
            /\ last' = [op |-> "ExportOp", filepath |-> filepath, mode |-> "NONE",
                        cond |-> "NoFilePath",
                        level |-> "ERROR", ret |-> "CANCELLED", repeat |-> FALSE]
       ELSE LET r == export_skin_weights(filepath, writable)
            IN  /\ file' = r.file
                /\ last' = [op |-> "ExportOp", filepath |-> filepath,
                            mode |-> "NONE", cond |-> r.cond,
                            level |-> IF r.raised THEN "ERROR" ELSE "INFO",
                            ret |-> IF r.raised THEN "CANCELLED" ELSE "FINISHED",
                            repeat |-> FALSE]
    /\ UNCHANGED <<obj_type, vertices, uv_layer, vertex_groups, weights, kd_tie>>

\* ImportSkinWeights.execute
ImportOp(filepath, mapping_mode) ==
    /\ before' = snapshot
    /\ IF obj_type # "MESH"
       THEN /\ UNCHANGED <<vertex_groups, weights>>
            /\ calls' = <<>>
            /\ last' = [op |-> "ImportOp", filepath |-> filepath,
                        mode |-> mapping_mode,
                        cond |-> IF obj_type = "NONE" THEN "NoSelection"
                                 ELSE "WrongObjectType",
                        level |-> "ERROR", ret |-> "CANCELLED",
                        repeat |-> FALSE]
       ELSE IF filepath = ""
       THEN /\ UNCHANGED <<vertex_groups, weights>>
            /\ calls' = <<>>
            /\ last' = [op |-> "ImportOp", filepath |-> filepath,
                        mode |-> mapping_mode, cond |-> "NoFilePath",
                        level |-> "ERROR", ret |-> "CANCELLED",
                        repeat |-> FALSE]
       ELSE LET r == import_skin_weights(filepath, mapping_mode)
            IN  /\ vertex_groups' = r.vertex_groups
                /\ weights' = r.weights
                /\ calls' = r.calls
                /\ last' = [op |-> "ImportOp", filepath |-> filepath,
                            mode |-> mapping_mode, cond |-> r.cond,
                            level |-> IF r.raised THEN "ERROR" ELSE "INFO",
                            ret |-> IF r.raised THEN "CANCELLED" ELSE "FINISHED",
                            repeat |-> /\ is_import(last)
                                       /\ last.filepath = filepath
                                       /\ last.mode = mapping_mode]
    /\ UNCHANGED <<obj_type, vertices, uv_layer, file, kd_tie>>

\* import_skin_weights(filepath, mapping_mode) called directly: the mapping
\* mode is then any string, and an exception reaches the caller.
ImportCall(filepath, mapping_mode) ==
    LET r == import_skin_weights(filepath, mapping_mode)
    IN  /\ before' = snapshot
        /\ vertex_groups' = r.vertex_groups
        /\ weights' = r.weights
        /\ calls' = r.calls
        /\ last' = [op |-> "ImportCall", filepath |-> filepath,
                    mode |-> mapping_mode, cond |-> r.cond,
                    level |-> "NONE",
                    ret |-> IF r.raised THEN "RAISED" ELSE "RETURNED",
                    repeat |-> /\ is_import(last)
                               /\ last.filepath = filepath
                               /\ last.mode = mapping_mode]
        /\ UNCHANGED <<obj_type, vertices, uv_layer, file, kd_tie>>

FilePaths == {"", FilePath}
\* ImportSkinWeights.mapping_mode is an EnumProperty of these two.
OperatorModes == {"POSITION", "UV"}
\* A mapping mode that only a direct call can pass.
OtherModes == {"NORMAL"}

Next ==
    \/ \E filepath \in FilePaths, writable \in BOOLEAN :
          ExportOp(filepath, writable)
    \/ \E filepath \in FilePaths, mapping_mode \in OperatorModes :
          ImportOp(filepath, mapping_mode)
    \/ \E filepath \in FilePaths, mapping_mode \in OtherModes :
          ImportCall(filepath, mapping_mode)

\* Export, then import by position.
NextRT ==
    \/ \E filepath \in FilePaths, writable \in BOOLEAN :
          ExportOp(filepath, writable)
    \/ \E filepath \in FilePaths : ImportOp(filepath, "POSITION")

\* Import by UV.
NextUV == \E filepath \in FilePaths : ImportOp(filepath, "UV")

----------------------------------------------------------------------------
\* Initial states: the mesh the user has selected and the file on disk

P0 == <<0, 0, 0>>
P1 == <<1, 0, 0>>
P2 == <<0, 2, 0>>

Item(name, w) == [name |-> name, ok |-> TRUE, w |-> w]
\* An entry of "weights" whose value is not a number.
BadItem(name) == [name |-> name, ok |-> FALSE, w |-> 0]

UV(x, y) == [x |-> x, y |-> y, d |-> 1]

Record(co, uv, items) ==
    [co_ok |-> TRUE, co |-> co, uv_kind |-> "ok", uv |-> uv, weights |-> items]

Range(seq) == {seq[k] : k \in 1..Len(seq)}

SeqsUpTo(S, n) == UNION {[1..k -> S] : k \in 0..n}

\* n vertices in a row, all positions different.
Line(n) == [k \in 1..n |-> <<k - 1, 0, 0>>]
\* n vertices at one position.
Stacked(n) == [k \in 1..n |-> P0]

\* The weights a vertex can hold in a mesh with these groups: values[g] are
\* the weights tried for group g.
VertexWeights(groups, values) ==
    UNION {{f \in [S -> UNION {values[g] : g \in S}] :
               \A g \in S : f[g] \in values[g]} : S \in SUBSET Range(groups)}

NoLayer == [active |-> FALSE, loops |-> <<>>]

\* The UV layers with at most MaxLoops loops over n vertices.
Layers(n, grid) ==
    {NoLayer} \cup
    {[active |-> TRUE, loops |-> l] :
        l \in SeqsUpTo([vertex_index : 0..(n - 1), uv : grid], MaxLoops)}

\* A UV layer with one loop for every vertex.
OneLoopEach(n) ==
    [active |-> TRUE,
     loops |-> [k \in 1..n |-> [vertex_index |-> k - 1, uv |-> <<k % 2, 1>>]]]

NoFile == [kind |-> "missing", has_vertices |-> FALSE, vertices |-> <<>>]
Garbage == [kind |-> "garbage", has_vertices |-> FALSE, vertices |-> <<>>]
\* A document that parses to something else than an object, such as [].
NotAnObject == [kind |-> "array", has_vertices |-> FALSE, vertices |-> <<>>]
NoVerticesKey == [kind |-> "object", has_vertices |-> FALSE, vertices |-> <<>>]
Dataset(recs) == [kind |-> "object", has_vertices |-> TRUE, vertices |-> recs]

\* Records of a file written by hand or by another tool: well-formed ones,
\* one without "uv" and with no weights, one with a "uv" that is no list of
\* numbers, one with a weight that is no number, one without "co".
SampleRecords ==
    { Record(P0, UV(0, 0), <<Item("a", 7)>>),
      Record(P1, UV(1, 1), <<Item("b", 3), Item("a", 7)>>),
      [Record(P1, ZeroUV, <<>>) EXCEPT !.uv_kind = "absent"],
      [Record(P2, ZeroUV, <<Item("b", 7)>>) EXCEPT !.uv_kind = "bad"],
      Record(P0, UV(1, 0), <<Item("a", 7), BadItem("b")>>),
      [Record(P0, UV(1, 1), <<Item("b", 7)>>) EXCEPT !.co_ok = FALSE] }

Files ==
    {NoFile, Garbage, NotAnObject, NoVerticesKey}
    \cup {Dataset(recs) : recs \in SeqsUpTo(SampleRecords, MaxRecs)}

NoCall ==
    [op |-> "none", filepath |-> "", mode |-> "NONE", cond |-> "none",
     level |-> "NONE", ret |-> "NONE", repeat |-> FALSE]

InitRest ==
    /\ before = snapshot
    /\ calls = <<>>
    /\ last = NoCall

\* No active object, or one that is not a mesh.
InitNoMesh ==
    /\ obj_type \in {"NONE", "CAMERA"}
    /\ vertices = <<>>
    /\ uv_layer = NoLayer
    /\ vertex_groups = <<>>
    /\ weights = <<>>

InitMesh(layouts, groupseqs, values) ==
    /\ obj_type = "MESH"
    /\ \E n \in 0..MaxVerts : vertices \in {layouts[k][n] : k \in DOMAIN layouts}
    /\ vertex_groups \in groupseqs
    /\ weights \in [1..Len(vertices) -> VertexWeights(vertex_groups, values)]

\* A mesh with few weights, and any file.
Init ==
    /\ \/ InitNoMesh
       \/ /\ InitMesh(<<[n \in 0..MaxVerts |-> Line(n)]>>, {<<>>, <<"a">>},
                      [g \in GroupNames |-> {3}])
          /\ uv_layer = OneLoopEach(Len(vertices))
    /\ file \in Files
    /\ kd_tie \in {"lowest", "highest"}
    /\ InitRest

Spec == Init /\ [][Next]_vars

\* A mesh with any weights, and no file yet: what is imported is what an
\* export wrote.
InitRT ==
    /\ InitMesh(<<[n \in 0..MaxVerts |-> Line(n)],
                  [n \in 0..MaxVerts |-> Stacked(n)]>>,
                {<<"a">>, <<"b", "a">>},
                [g \in GroupNames |-> IF g = "a" THEN {0, 3} ELSE {-1, 7}])
    /\ uv_layer = OneLoopEach(Len(vertices))
    /\ file = NoFile
    /\ kd_tie \in {"lowest", "highest"}
    /\ InitRest

SpecRT == InitRT /\ [][NextRT]_vars

UVGrid == {<<0, 0>>, <<1, 0>>}

\* Records that differ in their "uv": on the grid, between its points, absent.
UVRecords ==
    { Record(P0, UV(0, 0), <<Item("a", 7)>>),
      Record(P0, UV(1, 1), <<Item("a", 3)>>),
      Record(P0, [x |-> 1, y |-> 1, d |-> 2], <<Item("b", 3)>>),
      [Record(P0, ZeroUV, <<Item("b", 7)>>) EXCEPT !.uv_kind = "absent"] }

\* Any UV layer, and any UVs in the file.
InitUV ==
    /\ InitMesh(<<[n \in 0..MaxVerts |-> Stacked(n)]>>, {<<>>},
                [g \in GroupNames |-> {3}])
    /\ uv_layer \in Layers(Len(vertices), UVGrid)
    /\ file \in {Dataset(recs) : recs \in SeqsUpTo(UVRecords, MaxRecs)}
    /\ kd_tie = "lowest"
    /\ InitRest

SpecUV == InitUV /\ [][NextUV]_vars

----------------------------------------------------------------------------
\* What the properties speak of

mesh_unchanged ==
    vertex_groups = before.vertex_groups /\ weights = before.weights

\* The last call was an import that got as far as opening the file.
import_ran == is_import(last) /\ last.filepath # "" /\ obj_type = "MESH"

\* The file holds a non-empty "vertices" array.
dataset_loaded ==
    file.kind = "object" /\ file.has_vertices /\ file.vertices # <<>>

vertex_indices == 0..(Len(vertices) - 1)

\* Vertex vi has a matched record under the mode: the matcher returns an index.
has_match(vi, mode) ==
    /\ dataset_loaded
    /\ \/ /\ mode = "POSITION"
          /\ \A i \in 1..Len(file.vertices) : file.vertices[i].co_ok
       \/ /\ mode = "UV"
          /\ ~find_closest_uv_match(vi, file.vertices).raised
          /\ find_closest_uv_match(vi, file.vertices).index # -1

\* The record matched to vertex vi, where has_match(vi, mode).
matched_record(vi, mode) ==
    IF mode = "POSITION"
    THEN file.vertices[kdtree_find(file.vertices, vertices[vi + 1]) + 1]
    ELSE file.vertices[find_closest_uv_match(vi, file.vertices).index + 1]

well_formed(rec) == \A k \in 1..Len(rec.weights) : rec.weights[k].ok

\* The weight of vertex vi in group g is w.
holds_weight(wts, vi, g, w) == g \in DOMAIN wts[vi + 1] /\ wts[vi + 1][g] = w

positions_distinct ==
    \A i, j \in 1..Len(vertices) : i # j => vertices[i] # vertices[j]

----------------------------------------------------------------------------
\* C1: on a mesh whose vertex positions are pairwise distinct, an import by
\* position of the file an export of that mesh wrote succeeds and leaves every
\* vertex group and every weight of every vertex as it was, each vertex being
\* matched to its own record.
C1_RoundTrip ==
    ( /\ last.op = "ImportOp" /\ last.mode = "POSITION"
      /\ last.filepath = FilePath
      /\ Len(vertices) > 0
      /\ before.file = export_document(before.vertex_groups, before.weights)
      /\ positions_distinct )
    => /\ last.cond = "Success"
       /\ mesh_unchanged
       /\ \A vi \in vertex_indices :
             kdtree_find(file.vertices, vertices[vi + 1]) = vi

\* An exported file with weights in it was imported by position onto the mesh
\* it came from, which also holds a weight the export left out.
C1_Witness ==
    /\ last.op = "ImportOp" /\ last.mode = "POSITION"
    /\ last.filepath = FilePath
    /\ Len(vertices) > 1
    /\ before.file = export_document(before.vertex_groups, before.weights)
    /\ positions_distinct
    /\ \E k \in 1..Len(calls) : calls[k].op = "add" /\ calls[k].index = 1
    /\ \E i \in 1..Len(vertices) : \E g \in DOMAIN weights[i] : weights[i][g] <= 0
    /\ weights[1] # weights[2]

\* C2: every weight in every record an export writes is a number greater
\* than 0, and a vertex has no entry for a group in which its weight is unset
\* or <= 0.
C2_ExportedWeightsPositive ==
    (last.op = "ExportOp" /\ last.cond = "Success") =>
       /\ file.kind = "object" /\ file.has_vertices
       /\ Len(file.vertices) = Len(vertices)
       /\ \A i \in 1..Len(vertices) :
             LET items == file.vertices[i].weights
             IN  /\ \A k \in 1..Len(items) : items[k].ok /\ items[k].w > 0
                 /\ \A g \in GroupNames :
                       (g \notin DOMAIN weights[i] \/ weights[i][g] <= 0)
                          => \A k \in 1..Len(items) : items[k].name # g

\* An export wrote a record with no weights for a vertex holding a zero and a
\* negative weight, and a record with a weight.
C2_Witness ==
    /\ last.op = "ExportOp" /\ last.cond = "Success"
    /\ \E i \in 1..Len(vertices) :
          /\ file.vertices[i].weights = <<>>
          /\ \E g \in DOMAIN weights[i] : weights[i][g] = 0
          /\ \E g \in DOMAIN weights[i] : weights[i][g] < 0
    /\ \E i \in 1..Len(vertices) : file.vertices[i].weights # <<>>
    /\ \E i \in 1..Len(vertices) :
          \E g \in Range(vertex_groups) : g \notin DOMAIN weights[i]

\* C3: after a successful import by position or by UV, every vertex holds,
\* for every entry (g, w) of its matched record, exactly w in g.
C3_ReplaceSemantics ==
    (import_ran /\ last.cond = "Success" /\ last.mode \in OperatorModes) =>
       \A vi \in vertex_indices :
          has_match(vi, last.mode) =>
             LET items == matched_record(vi, last.mode).weights
             IN  \A k \in 1..Len(items) :
                    holds_weight(weights, vi, items[k].name, items[k].w)

\* A successful import set 0.7 where the vertex held 0.3.
C3_Witness ==
    /\ import_ran /\ last.cond = "Success" /\ last.mode \in OperatorModes
    /\ \E vi \in vertex_indices : \E g \in GroupNames :
          /\ holds_weight(before.weights, vi, g, 3)
          /\ holds_weight(weights, vi, g, 7)
          /\ has_match(vi, last.mode)

\* The groups an import created, in the order of creation.
RECURSIVE created(_)
created(cs) ==
    IF cs = <<>> THEN <<>>
    ELSE IF Head(cs).op = "new" THEN <<Head(cs).name>> \o created(Tail(cs))
    ELSE created(Tail(cs))

\* C4: when an import sets a weight for group g, g exists: it was there before
\* the import or the import created it earlier; a group is created only when
\* no group of its name exists, so at most once, and the groups afterwards are
\* those from before followed by the created ones.
C4_GetOrCreate ==
    is_import(last) =>
       /\ \A k \in 1..Len(calls) :
             LET existing == Range(before.vertex_groups)
                               \cup Range(created(SubSeq(calls, 1, k - 1)))
             IN  /\ calls[k].op = "add" => calls[k].name \in existing
                 /\ calls[k].op = "new" => calls[k].name \notin existing
       /\ vertex_groups = before.vertex_groups \o created(calls)

\* An import created a group, set a weight in it for two vertices, and set a
\* weight in a group that was there before.
C4_Witness ==
    /\ is_import(last)
    /\ \E k \in 1..Len(calls) :
          /\ calls[k].op = "new"
          /\ \E i, j \in (k + 1)..Len(calls) :
                /\ calls[i].op = "add" /\ calls[j].op = "add"
                /\ calls[i].name = calls[k].name /\ calls[j].name = calls[k].name
                /\ calls[i].index # calls[j].index
    /\ \E k \in 1..Len(calls) :
          calls[k].op = "add" /\ calls[k].name \in Range(before.vertex_groups)

\* C5: an export of a mesh with no vertices ends before the file is opened
\* (the file is as before, also where it cannot be opened), and an import of
\* a file that cannot be read or parsed, or whose "vertices" is missing or
\* empty, leaves vertex groups and weights as they were.
C5_AbortWithoutMutation ==
    /\ ( /\ last.op = "ExportOp" /\ last.filepath # "" /\ obj_type = "MESH"
         /\ Len(vertices) = 0 )
       => (file = before.file /\ last.cond = "EmptyMesh")
    /\ ( /\ import_ran
         /\ \/ file.kind \in {"missing", "garbage"}
            \/ file.kind = "object" /\ (~file.has_vertices \/ file.vertices = <<>>) )
       => mesh_unchanged

\* An import of a file with an empty "vertices" ended on a mesh with weights.
C5_Witness ==
    /\ import_ran
    /\ file.kind = "object" /\ file.has_vertices /\ file.vertices = <<>>
    /\ \E i \in 1..Len(vertices) : weights[i] # NoWeights
    /\ mesh_unchanged

Taxonomy ==
    {"NoSelection", "WrongObjectType", "EmptyMesh", "NoFilePath", "IOFailure",
     "ParseFailure", "EmptyDataset"}

\* C6: an operator that met a failure condition of the taxonomy reports an
\* ERROR and returns CANCELLED.
C6_FailuresReported ==
    (last.op \in {"ExportOp", "ImportOp"} /\ last.cond \in Taxonomy)
       => (last.level = "ERROR" /\ last.ret = "CANCELLED")

\* C7: once the dataset has loaded, an import by position or by UV is not
\* aborted with only some of the vertices updated, and every vertex whose
\* matched record is well-formed holds that record's weights afterwards,
\* whatever is wrong with the records of other vertices.
C7_PerVertexFailureSkipsOnlyThatVertex ==
    (import_ran /\ dataset_loaded /\ last.mode \in OperatorModes) =>
       /\ last.cond = "Success" \/ mesh_unchanged
       /\ \A vi \in vertex_indices :
             (has_match(vi, last.mode)
                /\ well_formed(matched_record(vi, last.mode)))
             => LET items == matched_record(vi, last.mode).weights
                IN  \A k \in 1..Len(items) :
                       holds_weight(weights, vi, items[k].name, items[k].w)

\* a < b for squared distances as fractions.
closer(a, b) == a.n * b.d < b.n * a.d

\* The squared distance of record index i to vertex vi, with (0, 0) for a
\* vertex without UV and for a record without "uv".
record_distance(vi, i) ==
    LET u == get_uv_coords(vi)
        t == IF u.some THEN u.uv ELSE ZeroUV
        r == file.vertices[i + 1]
    IN  uv_dist(t, IF r.uv_kind = "absent" THEN ZeroUV ELSE r.uv)

\* C8: find_closest_uv_match returns -1 exactly when the dataset is empty,
\* and otherwise the smallest index among the records at the least squared
\* distance from the vertex's averaged UV.
C8_ClosestUVMatch ==
    (obj_type = "MESH" /\ file.kind = "object") =>
       \A vi \in vertex_indices :
          LET m == find_closest_uv_match(vi, file.vertices)
              indices == 0..(Len(file.vertices) - 1)
          IN  /\ ~m.raised
              /\ (m.index = -1) <=> (file.vertices = <<>>)
              /\ file.vertices # <<>> =>
                    /\ m.index \in indices
                    /\ \A j \in indices :
                          ~closer(record_distance(vi, j),
                                  record_distance(vi, m.index))
                    /\ \A j \in indices :
                          j < m.index => closer(record_distance(vi, m.index),
                                                record_distance(vi, j))

\* An import by UV ran where a vertex with two loops is as near to the first
\* record, which has no "uv", as to the second, and got the first; another
\* vertex has no UV.
C8_Witness ==
    /\ last.op = "ImportOp" /\ last.mode = "UV" /\ last.cond = "Success"
    /\ Len(file.vertices) = 2
    /\ file.vertices[1].uv_kind = "absent"
    /\ calls # <<>>
    /\ \E vi \in vertex_indices :
          /\ Len(LoopUVs(uv_layer.loops, vi)) = 2
          /\ get_uv_coords(vi).uv # ZeroUV
          /\ ~closer(record_distance(vi, 0), record_distance(vi, 1))
          /\ ~closer(record_distance(vi, 1), record_distance(vi, 0))
          /\ find_closest_uv_match(vi, file.vertices).index = 0
    /\ \E vi \in vertex_indices : ~get_uv_coords(vi).some

\* The weight of vertex vi in g differs from what it was.
weight_changed(vi, g) ==
    \/ (g \in DOMAIN weights[vi + 1]) # (g \in DOMAIN before.weights[vi + 1])
    \/ /\ g \in DOMAIN weights[vi + 1] /\ g \in DOMAIN before.weights[vi + 1]
       /\ weights[vi + 1][g] # before.weights[vi + 1][g]

\* C9: an import removes no vertex group and no vertex from a group, changes
\* the weight of a vertex in a group only where the vertex has a matched
\* record with an entry for that group, and under a mode that is neither
\* POSITION nor UV changes no weight and creates no group.
C9_ImportFrame ==
    is_import(last) =>
       /\ Len(vertex_groups) >= Len(before.vertex_groups)
       /\ SubSeq(vertex_groups, 1, Len(before.vertex_groups)) = before.vertex_groups
       /\ \A vi \in vertex_indices :
             DOMAIN before.weights[vi + 1] \subseteq DOMAIN weights[vi + 1]
       /\ \A vi \in vertex_indices : \A g \in GroupNames :
             weight_changed(vi, g) =>
                /\ import_ran /\ last.mode \in OperatorModes
                /\ has_match(vi, last.mode)
                /\ \E k \in 1..Len(matched_record(vi, last.mode).weights) :
                      matched_record(vi, last.mode).weights[k].name = g
       /\ last.mode \notin OperatorModes => mesh_unchanged

\* A successful import changed a weight of one vertex and left alone the
\* weight of another, whose matched record has no weights.
C9_Witness ==
    /\ import_ran /\ last.cond = "Success" /\ last.mode \in OperatorModes
    /\ \E vi \in vertex_indices : \E g \in GroupNames : weight_changed(vi, g)
    /\ \E vi \in vertex_indices :
          /\ has_match(vi, last.mode)
          /\ matched_record(vi, last.mode).weights = <<>>
          /\ weights[vi + 1] # NoWeights
          /\ weights[vi + 1] = before.weights[vi + 1]

\* C10: an import run again with the same file and mode, right after the
\* first run, leaves vertex groups and weights as the first run left them.
C10_ImportIdempotent ==
    (is_import(last) /\ last.repeat) => mesh_unchanged

\* The second of two equal imports set again the 0.7 that only the first can
\* have brought, and changed nothing.
C10_Witness ==
    /\ import_ran /\ last.repeat /\ last.cond = "Success"
    /\ \E k \in 1..Len(calls) : calls[k].op = "add" /\ calls[k].weight = 7
    /\ mesh_unchanged

====
